---- MODULE Spec2Model ----
(***************************************************************************)
(* The history database of yd-gui (src/src/database.rs, src/src/video.rs): *)
(* two SQLite tables, VIDEO_INFO (parent) and video_format (child), the    *)
(* transactional insert path, the non-transactional fetch and delete       *)
(* paths, and the id-bounded chunk queries.                                *)
(*                                                                         *)
(* Callers are asynchronous tasks sharing one connection pool.  Every      *)
(* `.await` on a statement is one step of the model, so that the steps of  *)
(* concurrent calls interleave exactly where the code can be suspended.    *)
(***************************************************************************)
EXTENDS Integers, Sequences, FiniteSets

(***************************************************************************)
(* Bounds of the model.                                                    *)
(***************************************************************************)
\* Largest row id the concurrent specification lets VIDEO_INFO generate.
MaxRowId == 2
\* Longest batch handed to insert_bulk_video_info.
MaxBatch == 2
\* Largest row id of the stores the pagination specification starts from.
MaxPageId == 5
\* The largest id of the stores of the first-page specification: above the
\* page size of fetch_chunk and fetch_first_chunk_from_bottom.
MaxBottomId == 22
\* The largest of the small page sizes a caller pages with.
MaxWalkPage == 3

(***************************************************************************)
(* video.rs: the values callers hand in and get back.                      *)
(***************************************************************************)
None == <<>>
Some(x) == <<x>>

F1 == [container |-> "webm", width |-> "640", height |-> "480", fps |-> "30"]
F2 == [container |-> "mp4", width |-> "1280", height |-> "720", fps |-> "60"]

\* One VideoInfo with the given fields.
VideoInfo(vid, t, a, d, th, fs, au) ==
    [video_id |-> vid, title |-> t, author |-> a, duration_seconds |-> d,
     thumbnail |-> th, video_formats |-> fs, audio_available |-> au]

\* The inputs of the concurrent specification: the first test video (two
\* different formats), one with a thumbnail and no format at all, and one
\* with the same format twice.
Videos ==
    { VideoInfo("id1", "Video 1", "Author 1", "1", None, <<F1, F2>>, TRUE),
      VideoInfo("id2", "Video 2", "Author 2", "2", Some("thumb"), <<>>, FALSE),
      VideoInfo("id3", "Video 3", "Author 3", "3", None, <<F1, F1>>, TRUE) }

\* The batches insert_bulk_video_info is called with.
Batches == UNION { [1..n -> Videos] : n \in 0..MaxBatch }

\* ManagedVideo::new
ManagedVideo(id, video_info) ==
    [id |-> id, video_info |-> video_info,
     content_size |-> None, downloading |-> FALSE]

(***************************************************************************)
(* Tables.  VIDEO_INFO is a function from the row id to the row;           *)
(* video_format is the sequence of its rows in rowid order (no child row   *)
(* is ever deleted, so the position is the rowid).                         *)
(***************************************************************************)
EmptyTable == <<>>

Max(a, b) == IF a >= b THEN a ELSE b
Min(a, b) == IF a <= b THEN a ELSE b

MaxOf(S) == IF S = {} THEN 0 ELSE CHOOSE m \in S : \A x \in S : x <= m
MinOf(S) == CHOOSE m \in S : \A x \in S : m <= x

PutRow(tbl, id, row) ==
    [i \in DOMAIN tbl \cup {id} |-> IF i = id THEN row ELSE tbl[i]]

DropRows(tbl, ids) == [i \in DOMAIN tbl \ ids |-> tbl[i]]

\* bool <-> INTEGER column
BoolToSql(b) == IF b THEN 1 ELSE 0
SqlToBool(n) == n # 0

(***************************************************************************)
(* The statements.                                                         *)
(***************************************************************************)
\* Faulty variant: a plain INTEGER PRIMARY KEY, the id is one more than the
\* largest id present, whatever was assigned before.
RowidMaxPlusOne(tbl, sq) == MaxOf(DOMAIN tbl) + 1

\* The id the auto-incrementing primary key of VIDEO_INFO generates (the
\* schema is created by the migrations): one more than the largest id the
\* table ever held (sqlite_sequence), never an id used before.  The
\* counter is part of the database: a rollback takes it back as well.
AutoIncrementId(tbl, sq) == Max(sq, MaxOf(DOMAIN tbl)) + 1

\* Faulty variant: title and author bound to each other's placeholder.
InfoRowSwapped(v) ==
    [video_id |-> v.video_id, title |-> v.author, author |-> v.title,
     duration_seconds |-> v.duration_seconds, thumbnail |-> v.thumbnail,
     audio_available |-> BoolToSql(v.audio_available)]
\* The VIDEO_INFO row QUERY_INSERT_INFO writes: $1..$6 in column order.
QUERY_INSERT_INFO(v) ==
    [video_id |-> v.video_id, title |-> v.title, author |-> v.author,
     duration_seconds |-> v.duration_seconds, thumbnail |-> v.thumbnail,
     audio_available |-> BoolToSql(v.audio_available)]

\* The video_format row QUERY_INSERT_FORMAT writes.
QUERY_INSERT_FORMAT(f, id) ==
    [container |-> f.container, width |-> f.width, height |-> f.height,
     fps |-> f.fps, video_info_id |-> id]

\* #[derive(FromRow)] of VideoInfo: video_formats is skipped (default).
VideoInfoFromRow(row) ==
    [video_id |-> row.video_id, title |-> row.title, author |-> row.author,
     duration_seconds |-> row.duration_seconds, thumbnail |-> row.thumbnail,
     video_formats |-> <<>>, audio_available |-> SqlToBool(row.audio_available)]

\* #[derive(FromRow)] of VideoFormat: the video_info_id column is not a field.
VideoFormatFromRow(row) ==
    [container |-> row.container, width |-> row.width, height |-> row.height,
     fps |-> row.fps]

\* impl FromRow for IdAndInfo
IdAndInfo(id, row) == [id |-> id, info |-> VideoInfoFromRow(row)]

\* QUERY_FETCH_ONE_INFO: the rows with that id (none or one).
QUERY_FETCH_ONE_INFO(tbl, id) ==
    IF id \in DOMAIN tbl THEN <<VideoInfoFromRow(tbl[id])>> ELSE <<>>

RECURSIVE SelectFormats(_, _)
SelectFormats(ftbl, id) ==
    IF ftbl = <<>> THEN <<>>
    ELSE LET rest == SelectFormats(Tail(ftbl), id)
         IN IF Head(ftbl).video_info_id = id
            THEN <<VideoFormatFromRow(Head(ftbl))>> \o rest
            ELSE rest

\* QUERY_FETCH_ONE_FORMATS: every child row referencing id, in scan order.
QUERY_FETCH_ONE_FORMATS(ftbl, id) == SelectFormats(ftbl, id)

\* ORDER BY id ASC: the x-th id is the one with x - 1 smaller ids.
OrderAsc(S) ==
    [x \in 1..Cardinality(S) |->
        CHOOSE m \in S : Cardinality({y \in S : y < m}) = x - 1]

\* ORDER BY id DESC
OrderDesc(S) ==
    [x \in 1..Cardinality(S) |->
        CHOOSE m \in S : Cardinality({y \in S : y > m}) = x - 1]

\* LIMIT n (the bound q holds the value of s, evaluated once)
Limit(s, n) == CHOOSE t \in {SubSeq(q, 1, Min(n, Len(q))) : q \in {s}} : TRUE

RowsOf(tbl, ids) ==
    CHOOSE rows \in {[i \in 1..Len(q) |-> IdAndInfo(q[i], tbl[q[i]])] : q \in {ids}} :
        TRUE

\* Faulty variants: a strict bound, the wrong order, no LIMIT.
ChunkGt(tbl, starting_id, num_entries) ==
    RowsOf(tbl, Limit(OrderAsc({i \in DOMAIN tbl : i > starting_id}), num_entries))
ChunkGeqDesc(tbl, starting_id, num_entries) ==
    RowsOf(tbl, Limit(OrderDesc({i \in DOMAIN tbl : i >= starting_id}), num_entries))
ChunkGeqNoLimit(tbl, starting_id, num_entries) ==
    RowsOf(tbl, OrderAsc({i \in DOMAIN tbl : i >= starting_id}))
\* Faulty variant: the page starts one row late (LIMIT $2 OFFSET 1).
ChunkGeqOffsetOne(tbl, starting_id, num_entries) ==
    LET ids == OrderAsc({i \in DOMAIN tbl : i >= starting_id})
    IN RowsOf(tbl, IF ids = <<>> THEN <<>> ELSE Limit(Tail(ids), num_entries))
\* WHERE id >= $1 ORDER BY id ASC LIMIT $2
QUERY_FETCH_CHUNK_INFO_GEQ(tbl, starting_id, num_entries) ==
    RowsOf(tbl, Limit(OrderAsc({i \in DOMAIN tbl : i >= starting_id}), num_entries))

\* Faulty variants: a strict bound, the wrong order.
ChunkLt(tbl, starting_id, num_entries) ==
    RowsOf(tbl, Limit(OrderDesc({i \in DOMAIN tbl : i < starting_id}), num_entries))
ChunkLeqAsc(tbl, starting_id, num_entries) ==
    RowsOf(tbl, Limit(OrderAsc({i \in DOMAIN tbl : i <= starting_id}), num_entries))
\* WHERE id <= $1 ORDER BY id DESC LIMIT $2
QUERY_FETCH_CHUNK_INFO_LEQ(tbl, starting_id, num_entries) ==
    RowsOf(tbl, Limit(OrderDesc({i \in DOMAIN tbl : i <= starting_id}), num_entries))

\* Faulty variant: ORDER BY id ASC LIMIT $1
ChunkBottomAsc(tbl, num_entries) ==
    RowsOf(tbl, Limit(OrderAsc(DOMAIN tbl), num_entries))

\* ORDER BY id DESC LIMIT $1
QUERY_FETCH_CHUNK_INFO_BOTTOM(tbl, num_entries) ==
    RowsOf(tbl, Limit(OrderDesc(DOMAIN tbl), num_entries))

\* fetch_first_chunk_from_bottom's page size, and fetch_chunk's.
NUM_ENTRIES == 20

(***************************************************************************)
(* State.                                                                  *)
(***************************************************************************)
VARIABLES
    info,       \* VIDEO_INFO as committed: id -> row
    format,     \* video_format as committed: sequence of rows
    seq,        \* sqlite_sequence of VIDEO_INFO as committed
    lock,       \* the writer whose transaction holds the write lock, or 0
    tinfo,      \* VIDEO_INFO as the open write transaction sees it
    tformat,    \* video_format as the open write transaction sees it
    tseq,       \* sqlite_sequence as the open write transaction sees it
    txn,        \* per writing task: its insert or delete call in progress;
                \* txn[w].overlap is history: the call was in progress
                \* together with an insert call of another task
    rd,         \* the fetch call in progress; rd.overlap is history: one of
                \* its statements ran while a write transaction was open;
                \* rd.snap is history: for each row still to be completed,
                \* the formats committed for it when the parent query ran
    hist,       \* history: id -> the VideoInfo committed under that id
    mig,        \* the file's schema, the versions recorded as applied, whether
                \* a Database is open on it, and the migration call in progress;
                \* mig.again is history: the call found every version applied
    walk        \* a caller paging through the store: its direction, page
                \* size and cursor, and the ids of the pages it has taken

vars ==
    <<info, format, seq, lock, tinfo, tformat, tseq, txn, rd, hist, mig, walk>>

\* The tasks that call the insert methods concurrently.
Writers == {1, 2}

IdleTxn ==
    [pc |-> "idle", op |-> "none", input |-> <<>>, k |-> 0, j |-> 0,
     id |-> 0, res |-> <<>>, rows_affected |-> 0,
     status |-> "none", at |-> "none", overlap |-> FALSE]

IdleRd ==
    [pc |-> "idle", op |-> "none", id |-> 0, n |-> 0, ord |-> "none",
     rows |-> <<>>, out |-> <<>>, status |-> "none", overlap |-> FALSE,
     snap |-> <<>>]

\* No caller is paging.
IdleWalk ==
    [pc |-> "idle", ord |-> "none", p |-> 0, cursor |-> 0, started |-> FALSE,
     seen |-> <<>>]

\* The migrations, in version order, and the tables each creates.
MIGRATIONS ==
    <<[version |-> 1, creates |-> {"VIDEO_INFO"}],
      [version |-> 2, creates |-> {"video_format"}]>>

\* No file yet, no Database open.
NoFile ==
    [open |-> FALSE, tables |-> {}, applied |-> {}, pc |-> "idle",
     op |-> "none", status |-> "none", again |-> FALSE]

\* A Database open on a file every migration was applied to.
Migrated ==
    [NoFile EXCEPT !.open = TRUE,
       !.tables = {"_sqlx_migrations"} \cup
                  UNION {MIGRATIONS[k].creates : k \in 1..Len(MIGRATIONS)},
       !.applied = {MIGRATIONS[k].version : k \in 1..Len(MIGRATIONS)}]

\* Database { pool } over a freshly migrated file: both tables empty.
Init ==
    /\ info = EmptyTable
    /\ format = <<>>
    /\ seq = 0
    /\ lock = 0
    /\ tinfo = EmptyTable
    /\ tformat = <<>>
    /\ tseq = 0
    /\ txn = [w \in Writers |-> IdleTxn]
    /\ rd = IdleRd
    /\ hist = EmptyTable
    /\ mig = Migrated
    /\ walk = IdleWalk

storeVars == <<info, format, seq, hist, mig, walk>>
viewVars == <<lock, tinfo, tformat, tseq>>

(***************************************************************************)
(* The write path: insert_video_info and insert_bulk_video_info.           *)
(***************************************************************************)
\* get_transaction: pool.begin() issues a deferred BEGIN on a pooled
\* connection; nothing is locked or written yet.
get_transaction(w, op, video_infos) ==
    LET busy == {o \in Writers \ {w} : txn[o].pc \notin {"idle", "done"}}
    IN
    /\ txn[w].pc = "idle"
    /\ txn' = [o \in Writers |->
                 IF o = w
                 THEN [IdleTxn EXCEPT !.op = op, !.input = video_infos, !.k = 1,
                         !.pc = IF video_infos = <<>> THEN "commit" ELSE "parent",
                         !.overlap = (busy # {})]
                 ELSE IF o \in busy THEN [txn[o] EXCEPT !.overlap = TRUE]
                 ELSE txn[o]]
    /\ UNCHANGED <<storeVars, viewVars, rd>>

\* insert_video_info(&video_info), up to the first statement.
insert_video_info(w) ==
    \E v \in Videos : get_transaction(w, "insert", <<v>>)

\* insert_bulk_video_info(&video_infos), up to the first statement.
insert_bulk_video_info(w) ==
    \E vs \in Batches : get_transaction(w, "bulk", vs)

\* Faulty variant: the id is put in front of res instead of pushed.
AfterRecordPrepend(t, id) ==
    [t EXCEPT !.id = id, !.j = 0,
              !.res = <<id>> \o t.res,
              !.k = t.k + 1,
              !.pc = IF t.k < Len(t.input) THEN "parent" ELSE "commit"]
\* Where the call goes once record k is written with all its formats:
\* res.push(id), then the next record or the commit.
AfterRecord(t, id) ==
    [t EXCEPT !.id = id, !.j = 0,
              !.res = Append(t.res, id),
              !.k = t.k + 1,
              !.pc = IF t.k < Len(t.input) THEN "parent" ELSE "commit"]

\* Faulty variant: the id is not the one the INSERT returns on the
\* transaction but the next id as a statement on the pool sees it.
InsertInfoIdFromPool(w) ==
    LET t == txn[w]
        first == lock # w
        vi == IF first THEN info ELSE tinfo
        vf == IF first THEN format ELSE tformat
        id == AutoIncrementId(info, seq)
        v == t.input[t.k]
    IN /\ t.pc = "parent"
       /\ lock \in {0, w}
       /\ id <= MaxRowId
       /\ lock' = w
       /\ tinfo' = PutRow(vi, id, QUERY_INSERT_INFO(v))
       /\ tformat' = vf
       /\ tseq' = id
       /\ txn' = [txn EXCEPT ![w] =
                    IF v.video_formats = <<>>
                    THEN AfterRecord(t, id)
                    ELSE [t EXCEPT !.id = id, !.j = 1, !.pc = "child"]]
       /\ UNCHANGED <<storeVars, rd>>

\* query_scalar(QUERY_INSERT_INFO)...fetch_one(&mut *transaction): the first
\* write of the transaction takes the write lock (one writer at a time);
\* the row and its generated id exist in the transaction only.
InsertInfo(w) ==
    LET t == txn[w]
        first == lock # w
        vi == IF first THEN info ELSE tinfo
        vf == IF first THEN format ELSE tformat
        vs == IF first THEN seq ELSE tseq
        id == AutoIncrementId(vi, vs)
        v == t.input[t.k]
    IN /\ t.pc = "parent"
       /\ lock \in {0, w}
       /\ id <= MaxRowId
       /\ lock' = w
       /\ tinfo' = PutRow(vi, id, QUERY_INSERT_INFO(v))
       /\ tformat' = vf
       /\ tseq' = id
       /\ txn' = [txn EXCEPT ![w] =
                    IF v.video_formats = <<>>
                    THEN AfterRecord(t, id)
                    ELSE [t EXCEPT !.id = id, !.j = 1, !.pc = "child"]]
       /\ UNCHANGED <<storeVars, rd>>

\* Faulty variant: the format rows are bound to the record's position in
\* the call instead of the id the parent insert returned.
InsertFormatBindsIndex(w) ==
    LET t == txn[w]
        fs == t.input[t.k].video_formats
    IN /\ t.pc = "child"
       /\ lock = w
       /\ tformat' = Append(tformat, QUERY_INSERT_FORMAT(fs[t.j], t.k))
       /\ txn' = [txn EXCEPT ![w] =
                    IF t.j < Len(fs)
                    THEN [t EXCEPT !.j = t.j + 1]
                    ELSE AfterRecord(t, t.id)]
       /\ UNCHANGED <<storeVars, lock, tinfo, tseq, rd>>

\* query(QUERY_INSERT_FORMAT)...bind(id).execute(&mut *transaction)
InsertFormat(w) ==
    LET t == txn[w]
        fs == t.input[t.k].video_formats
    IN /\ t.pc = "child"
       /\ lock = w
       /\ tformat' = Append(tformat, QUERY_INSERT_FORMAT(fs[t.j], t.id))
       /\ txn' = [txn EXCEPT ![w] =
                    IF t.j < Len(fs)
                    THEN [t EXCEPT !.j = t.j + 1]
                    ELSE AfterRecord(t, t.id)]
       /\ UNCHANGED <<storeVars, lock, tinfo, tseq, rd>>

\* What the call returns: Ok(id) or Ok(res).
Returned(t, status, at) ==
    [t EXCEPT !.pc = "done", !.status = status, !.at = at]

\* The history of what was committed under which id.
Recorded(t) ==
    [i \in DOMAIN hist \cup {t.res[x] : x \in 1..Len(t.res)} |->
        IF \E x \in 1..Len(t.res) : t.res[x] = i
        THEN t.input[CHOOSE x \in 1..Len(t.res) : t.res[x] = i]
        ELSE hist[i]]

\* transaction.commit(): every row of the transaction becomes visible to
\* the other connections at once.
Commit(w) ==
    LET t == txn[w]
    IN /\ t.pc = "commit"
       /\ IF lock = w
          THEN /\ info' = tinfo
               /\ format' = tformat
               /\ seq' = tseq
          ELSE UNCHANGED <<info, format, seq>>
       /\ hist' = Recorded(t)
       /\ lock' = IF lock = w THEN 0 ELSE lock
       /\ IF lock = w
          THEN tinfo' = EmptyTable /\ tformat' = <<>> /\ tseq' = 0
          ELSE UNCHANGED <<tinfo, tformat, tseq>>
       /\ txn' = [txn EXCEPT ![w] = Returned(t, "Ok", "none")]
       /\ UNCHANGED <<rd, mig, walk>>

\* Faulty variant: the statements were not in a transaction, what was
\* written stays.
RollbackKeepsWrites(w) ==
    IF lock = w
    THEN /\ info' = tinfo
         /\ format' = tformat
         /\ seq' = tseq
         /\ lock' = 0
         /\ tinfo' = EmptyTable /\ tformat' = <<>> /\ tseq' = 0
    ELSE UNCHANGED <<info, format, seq, viewVars>>
\* Faulty variant: one transaction per record, only the failing record
\* is rolled back.
RollbackFailingRecordOnly(w) ==
    LET done == {txn[w].res[x] : x \in 1..Len(txn[w].res)}
        lost == DOMAIN tinfo \ (DOMAIN info \cup done)
        Keep(r) == r.video_info_id \notin lost
    IN IF lock = w
       THEN /\ info' = [i \in DOMAIN tinfo \ lost |-> tinfo[i]]
            /\ format' = SelectSeq(tformat, Keep)
            /\ seq' = MaxOf(done \cup {seq})
            /\ lock' = 0
            /\ tinfo' = EmptyTable /\ tformat' = <<>> /\ tseq' = 0
       ELSE UNCHANGED <<info, format, seq, viewVars>>
\* Dropping a Transaction that was not committed rolls it back: the store
\* is left as committed.
Rollback(w) ==
    /\ UNCHANGED <<info, format, seq>>
    /\ IF lock = w
       THEN /\ lock' = 0
            /\ tinfo' = EmptyTable /\ tformat' = <<>> /\ tseq' = 0
       ELSE UNCHANGED viewVars

\* A statement (or the commit) returns Err: `?` returns it to the caller
\* and drops the transaction.
Fail(w) ==
    LET t == txn[w]
    IN /\ t.pc \in {"parent", "child", "commit"}
       /\ Rollback(w)
       /\ txn' = [txn EXCEPT ![w] = Returned(t, "Err", t.pc)]
       /\ UNCHANGED <<hist, rd, mig, walk>>

\* pool.begin() itself returns Err: nothing of the input was touched.
BeginFail(w) ==
    /\ txn[w].pc = "idle"
    /\ \E op \in {"insert", "bulk"} :
          txn' = [txn EXCEPT ![w] =
                    [IdleTxn EXCEPT !.op = op, !.pc = "done",
                                    !.status = "Err", !.at = "begin"]]
    /\ UNCHANGED <<storeVars, viewVars, rd>>

\* The caller takes the result; the task may call again.
WriterReturn(w) ==
    /\ txn[w].pc = "done"
    /\ txn' = [txn EXCEPT ![w] = IdleTxn]
    /\ UNCHANGED <<storeVars, viewVars, rd>>

(***************************************************************************)
(* The read path.  Every fetch statement runs on `&self.pool`, that is on  *)
(* a pooled connection of its own and outside any transaction: it sees     *)
(* the committed tables.                                                   *)
(***************************************************************************)
\* Faulty variant: the fetch reads through the open transaction.
ReadInfoDirty == IF lock # 0 THEN tinfo ELSE info
ReadInfo == info

ReadFormat == format

Finished(r, status) == [r EXCEPT !.pc = "done", !.status = status]

\* For each row of a parent query, the formats an atomic read would find
\* with it at this instant.
Snapshot(rows) ==
    [x \in 1..Len(rows) |-> QUERY_FETCH_ONE_FORMATS(format, rows[x].id)]

\* fetch_one(id): the VIDEO_INFO query; no row is Error::RowNotFound.
fetch_one(id) ==
    LET got == QUERY_FETCH_ONE_INFO(ReadInfo, id)
        r == [IdleRd EXCEPT !.op = "fetch_one", !.id = id,
                            !.overlap = (lock # 0)]
    IN /\ rd.pc = "idle"
       /\ rd' = IF got = <<>>
                THEN Finished(r, "RowNotFound")
                ELSE [r EXCEPT !.pc = "formats",
                               !.rows = <<[id |-> id, info |-> got[1]]>>,
                               !.snap = Snapshot(<<[id |-> id]>>)]
       /\ UNCHANGED <<storeVars, viewVars, txn>>

\* The parent query of a chunk fetch, then the loop over its rows.
ChunkQuery(op, starting_id, num_entries, ord, rows) ==
    LET r == [IdleRd EXCEPT !.op = op, !.id = starting_id,
                            !.n = num_entries, !.ord = ord,
                            !.overlap = (lock # 0)]
    IN /\ rd.pc = "idle"
       /\ \E got \in {rows} :
             rd' = IF got = <<>>
                   THEN Finished(r, "Ok")
                   ELSE [r EXCEPT !.pc = "formats", !.rows = got,
                                  !.snap = Snapshot(got)]
       /\ UNCHANGED <<storeVars, viewVars, txn>>

\* fetch_chunk_of(starting_id, num_entries, ord)
fetch_chunk_of(starting_id, num_entries, ord) ==
    ChunkQuery("fetch_chunk_of", starting_id, num_entries, ord,
               IF ord = "GEQandASC"
               THEN QUERY_FETCH_CHUNK_INFO_GEQ(ReadInfo, starting_id, num_entries)
               ELSE QUERY_FETCH_CHUNK_INFO_LEQ(ReadInfo, starting_id, num_entries))

\* fetch_chunk(starting_id, ord)
fetch_chunk(starting_id, ord) == fetch_chunk_of(starting_id, 20, ord)

\* fetch_first_chunk_from_top()
fetch_first_chunk_from_top == fetch_chunk(1, "GEQandASC")

\* fetch_first_chunk_from_bottom()
fetch_first_chunk_from_bottom ==
    ChunkQuery("fetch_first_chunk_from_bottom", 0, NUM_ENTRIES, "none",
               QUERY_FETCH_CHUNK_INFO_BOTTOM(ReadInfo, NUM_ENTRIES))

\* Faulty variant: fetch_one reads the formats with fetch_one instead of
\* fetch_all, so a record without formats is Error::RowNotFound.
FetchFormatsNonEmpty ==
    LET row == Head(rd.rows)
        formats == QUERY_FETCH_ONE_FORMATS(ReadFormat, row.id)
        r == [rd EXCEPT !.rows = Tail(rd.rows), !.snap = Tail(rd.snap),
                        !.out = Append(rd.out,
                                  ManagedVideo(row.id,
                                    [row.info EXCEPT !.video_formats = formats])),
                        !.overlap = (rd.overlap \/ lock # 0)]
    IN /\ rd.pc = "formats"
       /\ rd' = IF rd.op = "fetch_one" /\ formats = <<>>
                THEN Finished([rd EXCEPT !.rows = <<>>, !.snap = <<>>], "RowNotFound")
                ELSE IF Tail(rd.rows) = <<>> THEN Finished(r, "Ok") ELSE r
       /\ UNCHANGED <<storeVars, viewVars, txn>>

\* video_info.video_formats = query_as(QUERY_FETCH_ONE_FORMATS).bind(id)...;
\* ManagedVideo::new(id, video_info) is pushed (chunk) or returned (one).
FetchFormats ==
    LET row == Head(rd.rows)
        video_info == [row.info EXCEPT !.video_formats =
                          QUERY_FETCH_ONE_FORMATS(ReadFormat, row.id)]
        r == [rd EXCEPT !.rows = Tail(rd.rows), !.snap = Tail(rd.snap),
                        !.out = Append(rd.out, ManagedVideo(row.id, video_info)),
                        !.overlap = (rd.overlap \/ lock # 0)]
    IN /\ rd.pc = "formats"
       /\ rd' = IF Tail(rd.rows) = <<>> THEN Finished(r, "Ok") ELSE r
       /\ UNCHANGED <<storeVars, viewVars, txn>>

\* The caller takes the result.
ReaderReturn ==
    /\ rd.pc = "done"
    /\ rd' = IdleRd
    /\ UNCHANGED <<storeVars, viewVars, txn>>

(***************************************************************************)
(* The delete path: one autocommitted statement each, on VIDEO_INFO only;  *)
(* like every write it waits for the write lock.                           *)
(***************************************************************************)
DeletedTxn(op, id, n) ==
    [IdleTxn EXCEPT !.op = op, !.id = id, !.pc = "done", !.status = "Ok",
                    !.rows_affected = n]

\* Faulty variant: the count returned is the number of ids asked for, not
\* the number of rows the statement removed.
DeletedCountsTargets(w, op, id, ids) ==
    /\ txn[w].pc = "idle"
    /\ lock = 0
    /\ info' = DropRows(info, ids)
    /\ txn' = [txn EXCEPT ![w] = DeletedTxn(op, id, Cardinality(ids))]
    /\ UNCHANGED <<format, seq, hist, viewVars, rd, mig, walk>>

\* Faulty variant: video_format references VIDEO_INFO with ON DELETE
\* CASCADE, the rows of the removed parents go with them.
OnDeleteCascade(ftbl, ids) ==
    SelectSeq(ftbl, LAMBDA row : row.video_info_id \notin ids)

\* What removing the VIDEO_INFO rows ids does to video_format: nothing, the
\* schema declares no cascading delete.
OnDelete(ftbl, ids) == ftbl

\* Faulty variant: the delete methods also delete the video_format rows of
\* the parents they remove.
DeletedWithChildren(w, op, id, ids) ==
    /\ txn[w].pc = "idle"
    /\ lock = 0
    /\ info' = DropRows(info, ids)
    /\ format' = SelectSeq(format, LAMBDA row : row.video_info_id \notin ids)
    /\ txn' = [txn EXCEPT ![w] =
                 DeletedTxn(op, id, Cardinality(DOMAIN info \cap ids))]
    /\ UNCHANGED <<seq, hist, viewVars, rd, mig, walk>>

Deleted(w, op, id, ids) ==
    /\ txn[w].pc = "idle"
    /\ lock = 0
    /\ info' = DropRows(info, ids)
    /\ format' = OnDelete(format, ids)
    /\ txn' = [txn EXCEPT ![w] =
                 DeletedTxn(op, id, Cardinality(DOMAIN info \cap ids))]
    /\ UNCHANGED <<seq, hist, viewVars, rd, mig, walk>>

\* Faulty variant: DELETE FROM VIDEO_INFO WHERE id >= $1
DeleteFromId(w, id) ==
    Deleted(w, "delete_video_info", id, {i \in DOMAIN info : i >= id} \cup {id})

\* delete_video_info(id): DELETE FROM VIDEO_INFO WHERE id = $1
delete_video_info(w, id) == Deleted(w, "delete_video_info", id, {id})

\* Faulty variant: DELETE FROM video_format, the child table.
DeleteAllFromFormat(w) ==
    /\ txn[w].pc = "idle"
    /\ lock = 0
    /\ format' = <<>>
    /\ txn' = [txn EXCEPT ![w] = DeletedTxn("delete_all", 0, Len(format))]
    /\ UNCHANGED <<info, seq, hist, viewVars, rd, mig, walk>>

\* delete_all(): DELETE FROM VIDEO_INFO
delete_all(w) == Deleted(w, "delete_all", 0, DOMAIN info)

(***************************************************************************)
(* Opening, migrating and closing.  The migrator records every version it  *)
(* applied in _sqlx_migrations (created when absent) and applies, in       *)
(* version order and each in a transaction of its own, the versions not    *)
(* recorded; f is the version at which the engine fails, if it is reached  *)
(* (0: no failure).  CREATE TABLE of a table that exists is an error.      *)
(***************************************************************************)
\* Faulty variant: every migration is executed, recorded or not.
RunFromUnrecorded(k, tables, applied, f) ==
    LET mgs == {x \in k..Len(MIGRATIONS) :
                   x = f \/ MIGRATIONS[x].creates \cap tables # {}}
    IN IF k > Len(MIGRATIONS) \/ mgs # {}
       THEN [tables |-> tables, applied |-> applied,
             status |-> IF k > Len(MIGRATIONS) THEN "Ok" ELSE "Err"]
       ELSE [tables |-> tables \cup
                        UNION {MIGRATIONS[x].creates : x \in k..Len(MIGRATIONS)},
             applied |-> applied \cup
                         {MIGRATIONS[x].version : x \in k..Len(MIGRATIONS)},
             status |-> "Ok"]

\* migrate!().run(&pool), from the k-th migration on.
RECURSIVE RunFrom(_, _, _, _)
RunFrom(k, tables, applied, f) ==
    IF k > Len(MIGRATIONS)
    THEN [tables |-> tables, applied |-> applied, status |-> "Ok"]
    ELSE LET mg == MIGRATIONS[k]
         IN IF mg.version \in applied
            THEN RunFrom(k + 1, tables, applied, f)
            ELSE IF f = k \/ mg.creates \cap tables # {}
                 THEN [tables |-> tables, applied |-> applied, status |-> "Err"]
                 ELSE RunFrom(k + 1, tables \cup mg.creates,
                              applied \cup {mg.version}, f)

AllApplied(m) ==
    m.applied = {MIGRATIONS[k].version : k \in 1..Len(MIGRATIONS)}

\* The state of the file and of the call after migrate!().run returned.
Ran(op, f) ==
    LET out == RunFrom(1, mig.tables \cup {"_sqlx_migrations"}, mig.applied, f)
    IN [mig EXCEPT !.tables = out.tables, !.applied = out.applied,
                   !.pc = "done", !.op = op, !.status = out.status,
                   !.again = AllApplied(mig)]

\* init_with_filename(path): the file is created if missing, then migrated;
\* the Database is returned only if the migrations ran.
init_with_filename(f) ==
    /\ ~mig.open
    /\ mig.pc = "idle"
    /\ mig' = [Ran("init_with_filename", f) EXCEPT
                 !.open = (Ran("init_with_filename", f).status = "Ok")]
    /\ UNCHANGED <<info, format, seq, hist, viewVars, txn, rd, walk>>

\* apply_migrations(), called again on an open Database.
apply_migrations(f) ==
    /\ mig.open
    /\ mig.pc = "idle"
    /\ mig' = Ran("apply_migrations", f)
    /\ UNCHANGED <<info, format, seq, hist, viewVars, txn, rd, walk>>

\* The caller takes the result of the migration call.
MigrateReturn ==
    /\ mig.pc = "done"
    /\ mig' = [mig EXCEPT !.pc = "idle", !.op = "none", !.status = "none",
                          !.again = FALSE]
    /\ UNCHANGED <<info, format, seq, hist, viewVars, txn, rd, walk>>

\* close(self): consumes the Database, so no call of it is in progress.
close ==
    /\ mig.open
    /\ mig.pc = "idle"
    /\ rd.pc = "idle"
    /\ \A w \in Writers : txn[w].pc = "idle"
    /\ mig' = [mig EXCEPT !.open = FALSE]
    /\ UNCHANGED <<info, format, seq, hist, viewVars, txn, rd, walk>>

\* A Database is open and its tables exist.
Usable ==
    /\ mig.open
    /\ UNION {MIGRATIONS[k].creates : k \in 1..Len(MIGRATIONS)} \subseteq mig.tables

(***************************************************************************)
(* The concurrent specification: a task that inserts and deletes and a     *)
(* task that fetches, interleaved at every await.                          *)
(***************************************************************************)
Ords == {"GEQandASC", "LEQandDESC"}

\* The task of this specification that inserts and deletes.
Inserter == {1}

Next ==
    \/ \E w \in Inserter : insert_video_info(w)
    \/ \E w \in Inserter : insert_bulk_video_info(w)
    \/ \E w \in Inserter : BeginFail(w)
    \/ \E w \in Inserter : InsertInfo(w)
    \/ \E w \in Inserter : InsertFormat(w)
    \/ \E w \in Inserter : Commit(w)
    \/ \E w \in Inserter : Fail(w)
    \/ \E w \in Inserter : WriterReturn(w)
    \/ \E id \in 1..(MaxRowId + 1) : fetch_one(id)
    \/ \E id \in 1..MaxRowId, ord \in Ords : fetch_chunk_of(id, 2, ord)
    \/ fetch_first_chunk_from_top
    \/ fetch_first_chunk_from_bottom
    \/ FetchFormats
    \/ ReaderReturn
    \/ \E w \in Inserter, id \in 1..(MaxRowId + 1) : delete_video_info(w, id)
    \/ \E w \in Inserter : delete_all(w)

Spec == Init /\ [][Next]_vars

(***************************************************************************)
(* The pagination specification: a store in which ids 1..m were inserted   *)
(* (id i holding the i-th value a, b, c, ...) and some of them deleted     *)
(* again, read by chunk fetches of every starting id, page size and        *)
(* direction, with no write in between.                                    *)
(***************************************************************************)
DocValues == <<"a", "b", "c", "d", "e", "f", "g", "h">>
DocValue(i) == DocValues[((i - 1) % Len(DocValues)) + 1]

\* The record inserted under id i: its value, and zero, one or two formats.
DocVideo(i) ==
    VideoInfo(DocValue(i), "Video", "Author", "1", None,
              CASE i % 3 = 0 -> <<>>
                [] i % 3 = 1 -> <<F1, F2>>
                [] OTHER -> <<F1>>,
              TRUE)

RECURSIVE DocFormatRows(_)
DocFormatRows(m) ==
    IF m = 0 THEN <<>>
    ELSE DocFormatRows(m - 1) \o
         [x \in 1..Len(DocVideo(m).video_formats) |->
            QUERY_INSERT_FORMAT(DocVideo(m).video_formats[x], m)]

InitPage ==
    /\ \E m \in 0..MaxPageId : \E kept \in SUBSET (1..m) :
          /\ info = [i \in kept |-> QUERY_INSERT_INFO(DocVideo(i))]
          /\ format = DocFormatRows(m)
          /\ seq = m
          /\ hist = [i \in 1..m |-> DocVideo(i)]
    /\ lock = 0
    /\ tinfo = EmptyTable
    /\ tformat = <<>>
    /\ tseq = 0
    /\ txn = [w \in Writers |-> IdleTxn]
    /\ rd = IdleRd
    /\ mig = Migrated
    /\ walk = IdleWalk

NextPage ==
    \/ \E id \in (-1)..(MaxPageId + 1), n \in 0..(MaxPageId + 1), ord \in Ords :
          fetch_chunk_of(id, n, ord)
    \/ FetchFormats
    \/ ReaderReturn

SpecPage == InitPage /\ [][NextPage]_vars

(***************************************************************************)
(* The delete specification: the same stores, on which one task deletes    *)
(* (one id or everything) while another fetches; nothing is inserted, so a *)
(* row that is gone stays gone.                                            *)
(***************************************************************************)
NextStore ==
    \/ \E w \in Inserter, id \in 1..(MaxPageId + 1) : delete_video_info(w, id)
    \/ \E w \in Inserter : delete_all(w)
    \/ \E w \in Inserter : WriterReturn(w)
    \/ \E id \in 1..(MaxPageId + 1) : fetch_one(id)
    \/ \E id \in 1..MaxPageId, ord \in Ords : fetch_chunk_of(id, 2, ord)
    \/ fetch_first_chunk_from_top
    \/ fetch_first_chunk_from_bottom
    \/ FetchFormats
    \/ ReaderReturn

SpecStore == InitPage /\ [][NextStore]_vars

(***************************************************************************)
(* The first-page specification: stores in which ids 1..m were inserted    *)
(* and at most one of them deleted again, with m up to above the page      *)
(* size, read from the bottom and by fetch_chunk backward from an existing *)
(* id.                                                                     *)
(***************************************************************************)
InitBottom ==
    /\ \E m \in 0..MaxBottomId : \E d \in 0..m :
          /\ info = [i \in (1..m) \ {d} |-> QUERY_INSERT_INFO(DocVideo(i))]
          /\ format = DocFormatRows(m)
          /\ seq = m
          /\ hist = [i \in 1..m |-> DocVideo(i)]
    /\ lock = 0
    /\ tinfo = EmptyTable
    /\ tformat = <<>>
    /\ tseq = 0
    /\ txn = [w \in Writers |-> IdleTxn]
    /\ rd = IdleRd
    /\ mig = Migrated
    /\ walk = IdleWalk

NextBottom ==
    \/ fetch_first_chunk_from_bottom
    \/ \E id \in DOMAIN info : fetch_chunk(id, "LEQandDESC")
    \/ FetchFormats
    \/ ReaderReturn

SpecBottom == InitBottom /\ [][NextBottom]_vars

(***************************************************************************)
(* The migration specification: a file that does not exist at first is     *)
(* opened, migrated again, closed and reopened, while records are inserted *)
(* and deleted through the open Database.                                  *)
(***************************************************************************)
InitMigrate ==
    /\ info = EmptyTable
    /\ format = <<>>
    /\ seq = 0
    /\ lock = 0
    /\ tinfo = EmptyTable
    /\ tformat = <<>>
    /\ tseq = 0
    /\ txn = [w \in Writers |-> IdleTxn]
    /\ rd = IdleRd
    /\ hist = EmptyTable
    /\ mig = NoFile
    /\ walk = IdleWalk

NextMigrate ==
    \/ \E f \in 0..Len(MIGRATIONS) : init_with_filename(f)
    \/ \E f \in 0..Len(MIGRATIONS) : apply_migrations(f)
    \/ MigrateReturn
    \/ close
    \/ Usable /\ \E w \in Inserter : insert_video_info(w)
    \/ \E w \in Inserter : InsertInfo(w)
    \/ \E w \in Inserter : InsertFormat(w)
    \/ \E w \in Inserter : Commit(w)
    \/ \E w \in Inserter : WriterReturn(w)
    \/ Usable /\ \E w \in Inserter : delete_all(w)

SpecMigrate == InitMigrate /\ [][NextMigrate]_vars

(***************************************************************************)
(* The two-writer specification: one task calls insert_video_info and      *)
(* another insert_bulk_video_info on the shared pool, again and again,     *)
(* interleaved at every await; a task whose first write finds the write    *)
(* lock taken waits or fails.                                              *)
(***************************************************************************)
NextTwo ==
    \/ insert_video_info(1)
    \/ insert_bulk_video_info(2)
    \/ \E w \in Writers : BeginFail(w)
    \/ \E w \in Writers : InsertInfo(w)
    \/ \E w \in Writers : InsertFormat(w)
    \/ \E w \in Writers : Commit(w)
    \/ \E w \in Writers : Fail(w)
    \/ \E w \in Writers : WriterReturn(w)

SpecTwo == Init /\ [][NextTwo]_vars

(***************************************************************************)
(* The traversal specification: on a store that does not change, a caller  *)
(* pages forward from cursor 1, or backward from the first page from the   *)
(* bottom, moving the cursor past the last id of each page, until a page   *)
(* is empty.                                                               *)
(***************************************************************************)
\* The page sizes of the traversals: the small ones and fetch_chunk's.
WalkSizes == (1..MaxWalkPage) \cup {20}

\* The caller starts a traversal.
WalkBegin(ord, p) ==
    /\ walk.pc = "idle"
    /\ rd.pc = "idle"
    /\ walk' = [IdleWalk EXCEPT !.pc = "paging", !.ord = ord, !.p = p,
                                !.cursor = IF ord = "GEQandASC" THEN 1 ELSE 0]
    /\ UNCHANGED <<info, format, seq, hist, mig, viewVars, txn, rd>>

\* The caller asks for the next page.
WalkFetch ==
    /\ walk.pc = "paging"
    /\ \/ /\ walk.ord = "LEQandDESC" /\ ~walk.started
          /\ fetch_first_chunk_from_bottom
       \/ /\ walk.ord = "GEQandASC" \/ walk.started
          /\ fetch_chunk_of(walk.cursor, walk.p, walk.ord)

\* The cursor after a page whose last id is last.
WalkCursor(last) == IF walk.ord = "GEQandASC" THEN last + 1 ELSE last - 1

\* The caller takes the page: an empty page ends the traversal.
WalkTake ==
    /\ walk.pc = "paging"
    /\ rd.pc = "done"
    /\ walk' = IF rd.out = <<>>
               THEN [walk EXCEPT !.pc = "finished", !.started = TRUE]
               ELSE [walk EXCEPT !.started = TRUE,
                       !.cursor = WalkCursor(rd.out[Len(rd.out)].id),
                       !.seen = walk.seen \o
                                [x \in 1..Len(rd.out) |-> rd.out[x].id]]
    /\ rd' = IdleRd
    /\ UNCHANGED <<info, format, seq, hist, mig, viewVars, txn>>

InitWalk == InitPage \/ InitBottom

NextWalk ==
    \/ \E ord \in Ords, p \in WalkSizes : WalkBegin(ord, p)
    \/ WalkFetch
    \/ FetchFormats
    \/ WalkTake

\* The caller's loop and the fetch it awaits keep running.
SpecWalk ==
    InitWalk /\ [][NextWalk]_vars /\ WF_vars(WalkFetch \/ FetchFormats \/ WalkTake)

(***************************************************************************)
(* Vocabulary of the properties.                                           *)
(***************************************************************************)
\* How often x occurs in the sequence s.
Count(s, x) == Cardinality({i \in 1..Len(s) : s[i] = x})

\* The same elements, each as often, in any order.
SameBag(s, t) ==
    /\ Len(s) = Len(t)
    /\ \A i \in 1..Len(s) : Count(s, s[i]) = Count(t, s[i])

\* Equal in every scalar field.
SameScalars(a, b) ==
    /\ a.video_id = b.video_id
    /\ a.title = b.title
    /\ a.author = b.author
    /\ a.duration_seconds = b.duration_seconds
    /\ a.thumbnail = b.thumbnail
    /\ a.audio_available = b.audio_available

SameRecord(a, b) ==
    SameScalars(a, b) /\ SameBag(a.video_formats, b.video_formats)

\* The ids of the records a finished fetch returned, in order.
OutIds == [i \in 1..Len(rd.out) |-> rd.out[i].id]
OutIdSet == {rd.out[i].id : i \in 1..Len(rd.out)}

ChunkDone(ord) ==
    rd.pc = "done" /\ rd.op = "fetch_chunk_of" /\ rd.ord = ord

\* The parent rows the bound of the finished chunk fetch admits.
Qualifying ==
    IF rd.ord = "GEQandASC"
    THEN {i \in DOMAIN info : i >= rd.id}
    ELSE {i \in DOMAIN info : i <= rd.id}

(***************************************************************************)
(* C6.  Forward chunk fetch: fetch_chunk_of(startingId, pageSize,          *)
(* GEQandASC) returns the smallest-id parent rows among those with         *)
(* id >= startingId, as many as pageSize allows, in strictly ascending id  *)
(* order, whether or not a row has id exactly startingId.                  *)
(***************************************************************************)
C6_ForwardChunk ==
    ChunkDone("GEQandASC") =>
        /\ rd.status = "Ok"
        /\ \A i \in 1..Len(rd.out) : \A j \in 1..Len(rd.out) :
              i < j => OutIds[i] < OutIds[j]
        /\ OutIdSet \subseteq Qualifying
        /\ Len(rd.out) = Min(rd.n, Cardinality(Qualifying))
        /\ \A x \in OutIdSet : \A y \in Qualifying \ OutIdSet : x < y
        /\ \A i \in 1..Len(rd.out) :
              SameScalars(rd.out[i].video_info, hist[OutIds[i]])

\* A full page that starts above a starting id no row has.
C6_Witness ==
    /\ ChunkDone("GEQandASC")
    /\ rd.id \notin DOMAIN info
    /\ rd.n = 2
    /\ Len(rd.out) = 2
    /\ Cardinality(Qualifying) > 2
    /\ OutIds[1] > rd.id + 1

(***************************************************************************)
(* C7.  Backward chunk fetch: fetch_chunk_of(startingId, pageSize,         *)
(* LEQandDESC) returns the largest-id parent rows among those with         *)
(* id <= startingId, as many as pageSize allows, in strictly descending id *)
(* order (nearest to startingId first), whether or not a row has id        *)
(* exactly startingId.                                                     *)
(***************************************************************************)
C7_BackwardChunk ==
    ChunkDone("LEQandDESC") =>
        /\ rd.status = "Ok"
        /\ \A i \in 1..Len(rd.out) : \A j \in 1..Len(rd.out) :
              i < j => OutIds[i] > OutIds[j]
        /\ OutIdSet \subseteq Qualifying
        /\ Len(rd.out) = Min(rd.n, Cardinality(Qualifying))
        /\ \A x \in OutIdSet : \A y \in Qualifying \ OutIdSet : x > y
        /\ \A i \in 1..Len(rd.out) :
              SameScalars(rd.out[i].video_info, hist[OutIds[i]])

\* A full page that starts below a starting id no row has.
C7_Witness ==
    /\ ChunkDone("LEQandDESC")
    /\ rd.id \notin DOMAIN info
    /\ rd.n = 2
    /\ Len(rd.out) = 2
    /\ Cardinality(Qualifying) > 2
    /\ OutIds[1] < rd.id - 1

(***************************************************************************)
(* C8.  Page size bound: in either direction a chunk fetch returns         *)
(* min(pageSize, number of parent rows within the id bound) records: a     *)
(* short page (also an empty one, also for pageSize = 0) is Ok and holds   *)
(* exactly the qualifying rows, none twice, none invented.                 *)
(***************************************************************************)
C8_PageSizeBound ==
    (rd.pc = "done" /\ rd.op = "fetch_chunk_of") =>
        /\ rd.status = "Ok"
        /\ Len(rd.out) = Min(rd.n, Cardinality(Qualifying))
        /\ Cardinality(OutIdSet) = Len(rd.out)
        /\ OutIdSet \subseteq Qualifying
        /\ rd.n >= Cardinality(Qualifying) => OutIdSet = Qualifying

\* A short page: fewer rows qualify than the page size asks for.
C8_Witness ==
    /\ rd.pc = "done" /\ rd.op = "fetch_chunk_of"
    /\ Cardinality(Qualifying) = 2
    /\ rd.n = 4
    /\ Len(rd.out) = 2
    /\ Cardinality(DOMAIN info) > 2

DocStore ==
    /\ DOMAIN info = 1..5
    /\ \A i \in 1..5 : info[i].video_id = DocValues[i]

DocCall ==
    /\ rd.pc = "done" /\ rd.op = "fetch_chunk_of"
    /\ rd.id = 5 /\ rd.n = 5 /\ rd.ord = "GEQandASC"

C1_RoundTrip ==
    \A w \in Writers :
        ( /\ txn[w].pc = "done" /\ txn[w].op = "insert" /\ txn[w].status = "Ok"
          /\ rd.pc = "done" /\ rd.op = "fetch_one" /\ rd.status = "Ok"
          /\ rd.id = txn[w].id )
        => /\ Len(rd.out) = 1
           /\ rd.out[1].id = txn[w].id
           /\ SameRecord(rd.out[1].video_info, txn[w].input[1])

\* The round trip of a record with two formats through a store that holds
\* orphaned child rows of a deleted parent.
C1_Witness ==
    \E w \in Writers :
        /\ txn[w].pc = "done" /\ txn[w].op = "insert" /\ txn[w].status = "Ok"
        /\ rd.pc = "done" /\ rd.op = "fetch_one" /\ rd.status = "Ok"
        /\ rd.id = txn[w].id
        /\ Len(rd.out[1].video_info.video_formats) = 2
        /\ \E i \in 1..Len(format) : format[i].video_info_id \notin DOMAIN info

(***************************************************************************)
(* C2.  insert_video_info is atomic on failure: no step of the call other  *)
(* than the one that returns Ok (the successful commit) changes the        *)
(* committed tables, so a call that fails at begin, at the parent insert,  *)
(* at a child insert or at the commit leaves neither its parent row nor    *)
(* any child row behind.                                                   *)
(***************************************************************************)
C2_InsertAtomicOnFailure ==
    [][\A w \in Writers :
          ( /\ (txn[w].op = "insert" \/ txn'[w].op = "insert")
            /\ txn'[w] # txn[w]
            /\ ~(txn'[w].pc = "done" /\ txn'[w].status = "Ok") )
          => (info' = info /\ format' = format /\ seq' = seq)]_vars

\* The insert of a record with formats has failed at its commit, after the
\* parent row and every child row were written inside the transaction.
C2_Witness ==
    \E w \in Writers :
        /\ txn[w].pc = "done" /\ txn[w].op = "insert" /\ txn[w].status = "Err"
        /\ txn[w].at = "commit"
        /\ Len(txn[w].input[1].video_formats) = 2
        /\ txn[w].id \notin DOMAIN info
        /\ lock = 0

(***************************************************************************)
(* C3.  insert_bulk_video_info is all-or-nothing: no step of the call      *)
(* other than the one that returns Ok changes the committed tables, so a   *)
(* batch that fails at its k-th record (or at the commit) leaves no row of *)
(* any of its records behind, the records 1..k-1 included.                 *)
(***************************************************************************)
C3_BulkAllOrNothing ==
    [][\A w \in Writers :
          ( /\ (txn[w].op = "bulk" \/ txn'[w].op = "bulk")
            /\ txn'[w] # txn[w]
            /\ ~(txn'[w].pc = "done" /\ txn'[w].status = "Ok") )
          => (info' = info /\ format' = format /\ seq' = seq)]_vars

\* A batch has failed at a statement of its second record, after the first
\* record was written inside the transaction with its formats.
C3_Witness ==
    \E w \in Writers :
        /\ txn[w].pc = "done" /\ txn[w].op = "bulk" /\ txn[w].status = "Err"
        /\ txn[w].at \in {"parent", "child"}
        /\ txn[w].k = 2
        /\ Len(txn[w].res) = 1
        /\ Len(txn[w].input[1].video_formats) = 2
        /\ txn[w].res[1] \notin DOMAIN info
        /\ lock = 0

(***************************************************************************)
(* C4.  Isolation: whatever a fetch (fetch_one, fetch_chunk_of,            *)
(* fetch_chunk, fetch_first_chunk_from_top/bottom) has read while an       *)
(* insert or bulk insert is in flight, it holds no row of the open         *)
(* transaction, and every record it returns was committed and carries all  *)
(* the variants committed with it: a transaction's rows become visible     *)
(* together, at its commit, or not at all.                                 *)
(***************************************************************************)
Uncommitted == IF lock = 0 THEN {} ELSE DOMAIN tinfo \ DOMAIN info

C4_ReadersSeeWholeTransactions ==
    /\ \A i \in 1..Len(rd.rows) :
          rd.rows[i].id \in DOMAIN hist \ Uncommitted
    /\ \A i \in 1..Len(rd.out) :
          /\ rd.out[i].id \in DOMAIN hist \ Uncommitted
          /\ SameBag(rd.out[i].video_info.video_formats,
                     hist[rd.out[i].id].video_formats)

\* A forward chunk fetch with room for two rows ran beside an open
\* transaction whose uncommitted row lies within its bound, and returned
\* the one committed row, with both its formats.
C4_Witness ==
    /\ rd.pc = "done" /\ rd.op = "fetch_chunk_of" /\ rd.overlap
    /\ rd.ord = "GEQandASC" /\ rd.n = 2
    /\ Len(rd.out) = 1
    /\ Len(rd.out[1].video_info.video_formats) = 2
    /\ lock # 0
    /\ \E i \in Uncommitted : i >= rd.id

(***************************************************************************)
(* C5.  A successful insert_bulk_video_info(rs) returns as many ids as     *)
(* records, strictly increasing in input order, and fetch_one(ids[i])      *)
(* returns the i-th record with that record's own variants.                *)
(***************************************************************************)
C5_BulkIds ==
    \A w \in Writers :
        (txn[w].pc = "done" /\ txn[w].op = "bulk" /\ txn[w].status = "Ok")
        => /\ Len(txn[w].res) = Len(txn[w].input)
           /\ \A i \in 1..Len(txn[w].res) : \A j \in 1..Len(txn[w].res) :
                 i < j => txn[w].res[i] < txn[w].res[j]
           /\ \A i \in 1..Len(txn[w].res) :
                 ( /\ rd.pc = "done" /\ rd.op = "fetch_one" /\ rd.status = "Ok"
                   /\ rd.id = txn[w].res[i] )
                 => /\ Len(rd.out) = 1
                    /\ SameRecord(rd.out[1].video_info, txn[w].input[i])

\* A batch of two different records was inserted and the second id fetched.
C5_Witness ==
    \E w \in Writers :
        /\ txn[w].pc = "done" /\ txn[w].op = "bulk" /\ txn[w].status = "Ok"
        /\ Len(txn[w].input) = 2
        /\ txn[w].input[1] # txn[w].input[2]
        /\ rd.pc = "done" /\ rd.op = "fetch_one" /\ rd.status = "Ok"
        /\ rd.id = txn[w].res[2]

(***************************************************************************)
(* The delete path.                                                        *)
(***************************************************************************)
\* Task w holds the result of a delete call.
DeleteDone(w, op) == txn[w].pc = "done" /\ txn[w].op = op

\* This step is task w's delete call.
DeleteStep(w, op) == txn[w].pc = "idle" /\ txn'[w].pc = "done" /\ txn'[w].op = op

\* This step is the first statement of a fetch call.
FetchBegins == rd.pc = "idle" /\ rd'.pc # "idle"

RowIds(rows) == {rows[x].id : x \in 1..Len(rows)}

\* C11: delete_video_info(id) on an id that has a VIDEO_INFO row returns 1
\* and removes that row and no other; every other row is left as it was;
\* from then on (nothing being inserted) the row is absent, a fetch_one(id)
\* that begins is RowNotFound and no chunk fetch that begins selects the id.
C11_DeleteExisting ==
    /\ [](\A w \in Writers :
            DeleteDone(w, "delete_video_info") /\ txn[w].rows_affected = 1
            => txn[w].id \notin DOMAIN info)
    /\ [][\A w \in Writers :
            /\ DeleteStep(w, "delete_video_info") /\ txn'[w].id \in DOMAIN info
               => /\ txn'[w].status = "Ok"
                  /\ txn'[w].rows_affected = 1
                  /\ DOMAIN info' = DOMAIN info \ {txn'[w].id}
                  /\ \A i \in DOMAIN info' : info'[i] = info[i]
            /\ /\ DeleteDone(w, "delete_video_info")
               /\ txn[w].rows_affected = 1
               /\ FetchBegins
               => /\ rd'.op = "fetch_one" /\ rd'.id = txn[w].id
                     => rd'.pc = "done" /\ rd'.status = "RowNotFound"
                  /\ txn[w].id \notin RowIds(rd'.rows)]_vars

\* A row was deleted by id while others stay, and the fetch_one of that id
\* that followed (the row was there until the delete) is RowNotFound.
C11_Witness ==
    \E w \in Writers :
        /\ DeleteDone(w, "delete_video_info")
        /\ txn[w].rows_affected = 1
        /\ Cardinality(DOMAIN info) >= 2
        /\ \E i \in DOMAIN info : i > txn[w].id
        /\ rd.pc = "done" /\ rd.op = "fetch_one" /\ rd.id = txn[w].id
        /\ rd.status = "RowNotFound"

\* C12: delete_video_info(id) on an id that has no VIDEO_INFO row (the
\* store is empty, the id is above every id, or the row was deleted before)
\* is Ok(0), and leaves VIDEO_INFO and video_format as they were.
C12_DeleteMissing ==
    [][\A w \in Writers :
          DeleteStep(w, "delete_video_info") /\ txn'[w].id \notin DOMAIN info
          => /\ txn'[w].status = "Ok"
             /\ txn'[w].rows_affected = 0
             /\ info' = info
             /\ format' = format]_vars

\* A delete of an id above every existing id returned 0 on a store that
\* has rows.
C12_Witness ==
    \E w \in Writers :
        /\ DeleteDone(w, "delete_video_info")
        /\ txn[w].status = "Ok"
        /\ txn[w].rows_affected = 0
        /\ info # EmptyTable
        /\ txn[w].id > MaxOf(DOMAIN info)
        /\ txn[w].id \notin DOMAIN hist

\* C13: delete_all() returns the number of VIDEO_INFO rows there were just
\* before it (0 on an empty store) and leaves VIDEO_INFO empty; from then on
\* (nothing being inserted) a fetch_one that begins is RowNotFound and a
\* chunk fetch that begins returns the empty list.
C13_DeleteAll ==
    /\ [](\A w \in Writers : DeleteDone(w, "delete_all") => info = EmptyTable)
    /\ [][\A w \in Writers :
            /\ DeleteStep(w, "delete_all")
               => /\ txn'[w].status = "Ok"
                  /\ txn'[w].rows_affected = Cardinality(DOMAIN info)
                  /\ info' = EmptyTable
            /\ DeleteDone(w, "delete_all") /\ FetchBegins
               => /\ rd'.pc = "done"
                  /\ rd'.out = <<>>
                  /\ rd'.status =
                       IF rd'.op = "fetch_one" THEN "RowNotFound" ELSE "Ok"]_vars

\* delete_all removed three rows or more, and the fetch from the bottom that
\* followed (there were rows until the delete) returned the empty list.
C13_Witness ==
    \E w \in Writers :
        /\ DeleteDone(w, "delete_all")
        /\ txn[w].rows_affected >= 3
        /\ rd.pc = "done" /\ rd.op = "fetch_first_chunk_from_bottom"
        /\ rd.status = "Ok" /\ rd.out = <<>>

\* C14: neither delete_video_info nor delete_all cascades: the step leaves
\* video_format exactly as it was, so the rows of a removed parent stay,
\* each still carrying the removed parent's id as video_info_id.
C14_NoCascade ==
    [][\A w \in Writers :
          DeleteStep(w, "delete_video_info") \/ DeleteStep(w, "delete_all")
          => format' = format]_vars

\* Rows of video_format that reference an id with no VIDEO_INFO row.
Orphans == {x \in 1..Len(format) : format[x].video_info_id \notin DOMAIN info}

\* A delete by id removed a parent that has two formats: both rows are
\* still in video_format, referencing the id that is gone.
C14_Witness ==
    \E w \in Writers :
        /\ DeleteDone(w, "delete_video_info")
        /\ txn[w].rows_affected = 1
        /\ txn[w].id \notin DOMAIN info
        /\ Cardinality({x \in Orphans :
                          format[x].video_info_id = txn[w].id}) = 2

(***************************************************************************)
(* fetch_one.                                                              *)
(***************************************************************************)
\* C15: fetch_one(id) is Error::RowNotFound exactly when VIDEO_INFO has no
\* row with that id; when the row is there the call is Ok with that one
\* record, and with an empty video_formats when no video_format row
\* references the id.
C15_FetchOneNotFound ==
    [][/\ FetchBegins /\ rd'.op = "fetch_one"
          => /\ rd'.status = "RowNotFound" <=> rd'.id \notin DOMAIN info
             /\ rd'.status = "RowNotFound" <=> rd'.pc = "done"
       /\ rd.op = "fetch_one" /\ rd.pc = "formats" /\ rd' # rd
          => /\ rd'.pc = "done"
             /\ rd'.status = "Ok"
             /\ Len(rd'.out) = 1
             /\ rd'.out[1].id = rd.id
             /\ rd'.out[1].video_info.video_formats
                  = SelectFormats(format, rd.id)
             /\ (\A x \in 1..Len(format) : format[x].video_info_id # rd.id)
                => rd'.out[1].video_info.video_formats = <<>>]_vars

\* fetch_one returned Ok with an empty video_formats for a row that is
\* stored and that no video_format row references.
C15_Witness ==
    /\ rd.pc = "done" /\ rd.op = "fetch_one" /\ rd.status = "Ok"
    /\ rd.id \in DOMAIN info
    /\ \A x \in 1..Len(format) : format[x].video_info_id # rd.id
    /\ Len(rd.out) = 1
    /\ rd.out[1].video_info.video_formats = <<>>

(***************************************************************************)
(* The write path, continued.                                              *)
(***************************************************************************)
\* This step is a video_format insert of task w.
ChildStep(w) ==
    txn[w].pc = "child" /\ txn'[w] # txn[w] /\ txn'[w].status # "Err"

\* This step commits a transaction of task w that has written.
CommitStep(w) ==
    txn[w].pc = "commit" /\ lock = w /\ txn'[w].status = "Ok"

\* C16: a video_format row is written only inside the transaction that has
\* already inserted its parent, with video_info_id the id generated for that
\* parent; a commit appends to the committed video_format only rows whose
\* parent it commits in the same step; so every committed video_format row
\* references an id under which a parent was committed.
C16_FormatsFollowParent ==
    /\ [](\A x \in 1..Len(format) : format[x].video_info_id \in DOMAIN hist)
    /\ [][\A w \in Writers :
            /\ ChildStep(w)
               => /\ lock = w
                  /\ tformat' = Append(tformat, tformat'[Len(tformat')])
                  /\ tformat'[Len(tformat')].video_info_id = txn[w].id
                  /\ txn[w].id \in DOMAIN tinfo \ DOMAIN info
                  /\ tinfo[txn[w].id] = QUERY_INSERT_INFO(txn[w].input[txn[w].k])
                  /\ tinfo' = tinfo
            /\ CommitStep(w)
               => /\ SubSeq(format', 1, Len(format)) = format
                  /\ \A x \in (Len(format) + 1)..Len(format') :
                        format'[x].video_info_id \in DOMAIN info' \ DOMAIN info]_vars

\* Inside an open transaction, on a store that already has a row, the first
\* of two format rows of a record has just been written after its parent.
C16_Witness ==
    \E w \in Writers :
        /\ txn[w].pc = "child" /\ txn[w].j = 2 /\ lock = w
        /\ info # EmptyTable
        /\ txn[w].id # txn[w].k
        /\ txn[w].id \in DOMAIN tinfo \ DOMAIN info
        /\ Len(tformat) = Len(format) + 1
        /\ tformat[Len(tformat)].video_info_id = txn[w].id

(***************************************************************************)
(* The first page from the bottom.                                         *)
(***************************************************************************)
\* What the loop over the parent rows returns on a store that does not
\* change: each row with the formats that reference its id.
WithFormats(rows) ==
    [x \in 1..Len(rows) |->
        ManagedVideo(rows[x].id,
            [rows[x].info EXCEPT !.video_formats =
                QUERY_FETCH_ONE_FORMATS(format, rows[x].id)])]

BottomDone == rd.pc = "done" /\ rd.op = "fetch_first_chunk_from_bottom"

\* C17: fetch_first_chunk_from_bottom is Ok with the min(20, n) rows of the
\* largest ids, in descending id order, each with its formats; on a store
\* with rows that is what fetch_chunk(largest id, LEQandDESC) returns, and
\* on an empty store it is the empty list.
C17_FirstChunkFromBottom ==
    /\ BottomDone
       => /\ rd.status = "Ok"
          /\ Len(rd.out) = Min(20, Cardinality(DOMAIN info))
          /\ OutIdSet \subseteq DOMAIN info
          /\ \A i \in OutIdSet : \A k \in DOMAIN info \ OutIdSet : k < i
          /\ \A x \in 1..(Len(rd.out) - 1) : rd.out[x].id > rd.out[x + 1].id
          /\ \A x \in 1..Len(rd.out) :
                SameRecord(rd.out[x].video_info, hist[rd.out[x].id])
          /\ info = EmptyTable => rd.out = <<>>
          /\ info # EmptyTable
             => rd.out = WithFormats(QUERY_FETCH_CHUNK_INFO_LEQ(
                                       info, MaxOf(DOMAIN info), 20))
    /\ /\ rd.pc = "done" /\ rd.op = "fetch_chunk_of" /\ rd.ord = "LEQandDESC"
       /\ rd.n = 20 /\ rd.id = MaxOf(DOMAIN info)
       => rd.out = WithFormats(QUERY_FETCH_CHUNK_INFO_BOTTOM(info, NUM_ENTRIES))

\* The first page from the bottom of a store with more rows than the page
\* size, one of the top twenty ids being deleted: twenty records, starting
\* at the largest id.
C17_Witness ==
    /\ BottomDone
    /\ Cardinality(DOMAIN info) > 20
    /\ Len(rd.out) = 20
    /\ rd.out[1].id = MaxOf(DOMAIN info)
    /\ rd.out[20].id < MaxOf(DOMAIN info) - 19
    /\ rd.out[20].id > MinOf(DOMAIN info)

(***************************************************************************)
(* Migrations.                                                             *)
(***************************************************************************)
\* This step is a migration call (from init_with_filename or
\* apply_migrations) running to its result.
MigrateStep == mig.pc = "idle" /\ mig'.pc = "done"

\* C18: applying the migrations to a file they were already applied to is
\* Ok, creates no schema object again and leaves the schema, the record of
\* applied versions and every stored row as they were.
C18_MigrationsIdempotent ==
    [][MigrateStep /\ AllApplied(mig)
       => /\ mig'.status = "Ok"
          /\ mig'.tables = mig.tables
          /\ mig'.applied = mig.applied
          /\ mig'.op = "init_with_filename" => mig'.open
          /\ info' = info
          /\ format' = format
          /\ seq' = seq]_vars

\* A file that holds records was closed and opened again: the migrations
\* were found applied and the open succeeded.
C18_Witness ==
    /\ mig.pc = "done" /\ mig.op = "init_with_filename"
    /\ mig.again /\ mig.status = "Ok" /\ mig.open
    /\ info # EmptyTable
    /\ format # <<>>

(***************************************************************************)
(* The ids.                                                                *)
(***************************************************************************)
\* Task w holds the Ok of an insert call.
InsertDone(w) ==
    txn[w].pc = "done" /\ txn[w].status = "Ok" /\ txn[w].op \in {"insert", "bulk"}

\* No delete has removed a row: every id ever committed is still there.
NothingDeleted == DOMAIN info = DOMAIN hist

\* C19: on a store that was created empty and from which nothing was
\* deleted, the n records inserted so far have the ids 1..n (no row has id
\* n + 1), and an insert call that returned Ok gave its records, in input
\* order, the ids that follow those of the records inserted before it.
C19_SequentialIds ==
    NothingDeleted
    => LET n == Cardinality(DOMAIN info)
       IN /\ DOMAIN info = 1..n
          /\ \A w \in Writers :
                InsertDone(w)
                => /\ Len(txn[w].res) = Len(txn[w].input)
                   /\ \A x \in 1..Len(txn[w].res) :
                         /\ txn[w].res[x] = n - Len(txn[w].res) + x
                         /\ info[txn[w].res[x]]
                              = QUERY_INSERT_INFO(txn[w].input[x])

\* The second record inserted, by a call of its own after a first call and
\* after a call that failed, received id 2.
C19_Witness ==
    \E w \in Writers :
        /\ InsertDone(w) /\ txn[w].op = "insert"
        /\ NothingDeleted
        /\ txn[w].res = <<2>>
        /\ DOMAIN info = {1, 2}
        /\ info[1] # info[2]

\* C20: ids are never reused.  Whatever was inserted and deleted before, a
\* commit assigns only ids under which nothing was ever committed; so the
\* video_format rows that reference an id are exactly the formats of the
\* one record committed under it, and a fetch returns each record with its
\* own formats, never with the rows a deleted record left behind.
C20_IdsNeverReused ==
    /\ [](/\ \A i \in DOMAIN hist :
               SelectFormats(format, i) = hist[i].video_formats
          /\ \A x \in 1..Len(rd.out) :
               rd.out[x].video_info.video_formats
                 = hist[rd.out[x].id].video_formats)
    /\ [][\A w \in Writers :
            CommitStep(w)
            => \A x \in 1..Len(txn'[w].res) :
                  /\ txn'[w].res[x] \notin DOMAIN hist
                  /\ txn'[w].res[x] > MaxOf(DOMAIN hist)]_vars

\* A record with formats was deleted, its rows staying behind; the record
\* inserted after that has a new id and was fetched with its own formats.
C20_Witness ==
    \E w \in Writers :
        /\ InsertDone(w)
        /\ txn[w].res # <<>>
        /\ \E i \in DOMAIN hist \ DOMAIN info :
              /\ i < txn[w].res[1]
              /\ \E x \in Orphans : format[x].video_info_id = i
        /\ rd.pc = "done" /\ rd.op = "fetch_one" /\ rd.status = "Ok"
        /\ rd.id = txn[w].res[1]
        /\ MaxOf(DOMAIN info) = rd.id
        /\ DOMAIN info = {rd.id}
        /\ rd.out[1].video_info.video_formats # <<>>

(***************************************************************************)
(* Fetches interleaved with writes.                                        *)
(***************************************************************************)
\* This step is a formats read of the fetch in progress.
FormatsStep == rd.pc = "formats" /\ rd'.out # rd.out

\* C21: a chunk fetch reads the formats of its rows one by one, after the
\* parent query and between the commits and deletes of the writing task;
\* still every record it completes has the id and scalars the parent query
\* selected, and the formats an atomic read at the instant of the parent
\* query would have found with it, which are the formats the record was
\* inserted with.
C21_ChunkAsAtomicRead ==
    [][FormatsStep /\ rd.op # "fetch_one"
       => LET row == Head(rd.rows)
              new == rd'.out[Len(rd'.out)]
          IN /\ rd'.out = Append(rd.out, new)
             /\ new.id = row.id
             /\ SameScalars(new.video_info, row.info)
             /\ new.video_info.video_formats = Head(rd.snap)
             /\ new.video_info.video_formats = hist[row.id].video_formats]_vars

\* A chunk fetch has completed the first of its two rows; the second, which
\* has formats, was deleted after the parent query and is still to be read.
C21_Witness ==
    /\ rd.pc = "formats" /\ rd.op = "fetch_chunk_of"
    /\ Len(rd.out) = 1
    /\ Len(rd.rows) = 1
    /\ Head(rd.rows).id \notin DOMAIN info
    /\ Head(rd.snap) # <<>>
    /\ rd.out[1].id \in DOMAIN info

(***************************************************************************)
(* Concurrent inserts.                                                     *)
(***************************************************************************)
ResIds(w) == {txn[w].res[x] : x \in 1..Len(txn[w].res)}

\* This step returns Err from task w's insert call.
ErrStep(w) == txn[w].pc # "done" /\ txn'[w].pc = "done" /\ txn'[w].status = "Err"

\* C22: with two tasks inserting concurrently, the ids of the calls that
\* returned Ok are pairwise distinct, within a call and across the calls,
\* and new at the commit; every stored row of such a call is the record it
\* was submitted as, and the video_format rows referencing its id are that
\* record's formats, none of another call; a call that returns Err changes
\* no committed table, and rows reach the committed tables only by the
\* commit of the call that wrote them.
C22_ConcurrentInserts ==
    /\ [](\A w \in Writers :
            InsertDone(w)
            => /\ Len(txn[w].res) = Len(txn[w].input)
               /\ \A x, y \in 1..Len(txn[w].res) :
                     x # y => txn[w].res[x] # txn[w].res[y]
               /\ \A o \in Writers \ {w} :
                     InsertDone(o) => ResIds(w) \cap ResIds(o) = {}
               /\ \A x \in 1..Len(txn[w].res) :
                     /\ txn[w].res[x] \in DOMAIN info
                     /\ info[txn[w].res[x]] = QUERY_INSERT_INFO(txn[w].input[x])
                     /\ SelectFormats(format, txn[w].res[x])
                          = txn[w].input[x].video_formats)
    /\ [][\A w \in Writers :
            /\ ErrStep(w)
               => info' = info /\ format' = format /\ seq' = seq
            /\ CommitStep(w)
               => /\ DOMAIN info' \ DOMAIN info
                       = {txn'[w].res[x] : x \in 1..Len(txn'[w].res)}
                  /\ \A i \in DOMAIN info : info'[i] = info[i]
                  /\ DOMAIN info \subseteq DOMAIN info'
                  /\ \A x \in 1..Len(txn'[w].res) :
                        txn'[w].res[x] \notin DOMAIN hist]_vars
    /\ [][(info' # info \/ format' # format)
          => \E w \in Writers : CommitStep(w)]_vars

\* The two tasks' calls were in progress together and both returned Ok:
\* a single record and a batch of one other record, both with formats, the
\* batch's record under the smaller id.
C22_Witness ==
    /\ InsertDone(1) /\ InsertDone(2)
    /\ txn[1].overlap /\ txn[2].overlap
    /\ Len(txn[2].res) = 1
    /\ txn[1].input[1].video_formats # <<>>
    /\ txn[2].input[1].video_formats # <<>>
    /\ txn[1].input[1] # txn[2].input[1]
    /\ txn[2].res[1] < txn[1].res[1]

\* A call that was in progress together with another one failed after
\* its first write, while the other returned Ok.
C22_WitnessErr ==
    \E w \in Writers :
        /\ txn[w].pc = "done" /\ txn[w].status = "Err" /\ txn[w].overlap
        /\ txn[w].at \in {"child", "commit"}
        /\ \E o \in Writers \ {w} : InsertDone(o) /\ txn[o].overlap

(***************************************************************************)
(* Cursor traversal.                                                       *)
(***************************************************************************)
SeenIds == {walk.seen[x] : x \in 1..Len(walk.seen)}

\* The rows were taken in strictly ascending (descending) id order, so
\* none twice, and they are all the rows of the store.
TookEveryRowOnce ==
    /\ \A x \in 1..(Len(walk.seen) - 1) :
          IF walk.ord = "GEQandASC"
          THEN walk.seen[x] < walk.seen[x + 1]
          ELSE walk.seen[x] > walk.seen[x + 1]
    /\ SeenIds = DOMAIN info
    /\ Len(walk.seen) = Cardinality(DOMAIN info)

\* C23: on a store that does not change, a traversal with a page size of
\* at least 1, forward from cursor 1 with the cursor set to the last id + 1
\* after each page, or backward from the first page from the bottom with
\* the cursor set to the last id - 1, ends (on an empty page), and when it
\* has ended it has taken every row exactly once, in ascending (descending)
\* id order.
C23_CursorTraversal ==
    (walk.pc = "paging") ~> (walk.pc = "finished" /\ TookEveryRowOnce)

\* A backward traversal in pages of two has ended on a store of more rows
\* than the first page from the bottom holds, with an id missing among them.
C23_Witness ==
    /\ walk.pc = "finished" /\ walk.ord = "LEQandDESC" /\ walk.p = 2
    /\ Len(walk.seen) > 20
    /\ Cardinality(DOMAIN info) < MaxOf(DOMAIN info)
    /\ MinOf(DOMAIN info) = 1

\* A forward traversal in pages of two has ended on a store with ids
\* missing, the first among them.
C23_WitnessForward ==
    /\ walk.pc = "finished" /\ walk.ord = "GEQandASC" /\ walk.p = 2
    /\ Len(walk.seen) >= 3
    /\ 1 \notin DOMAIN info
    /\ Cardinality(DOMAIN info) < MaxOf(DOMAIN info) - 1

==============================================================================
